---- MODULE Spec2Model ----
(***************************************************************************)
(* Bit primitives of proc-bitfield (src/traits/int_impls.rs) and the       *)
(* example bitfields built on them (src/example.rs).                       *)
(*                                                                         *)
(* An integer of type t is represented by its two's-complement bit         *)
(* pattern, a natural number below 2^BITS(t); ToInt gives the value the    *)
(* type assigns to the pattern.  The macros instantiate the same code for  *)
(* every pair of integer types; the 8- and 16-bit instances are modelled.  *)
(* An arithmetic overflow that Rust detects (a shift by at least the       *)
(* operand's width, an overflowing subtraction) is the value Panic, which  *)
(* every operator propagates.                                              *)
(***************************************************************************)
EXTENDS Integers, Sequences, FiniteSets, TLC

VARIABLES T, word, call, ret, last, n

vars == <<T, word, call, ret, last, n>>

----------------------------------------------------------------------------
(* Integer types and the primitive operators of the language               *)

Unsigned == {"u8", "u16"}

SignedTypes == {"i8", "i16"}

IntTypes == Unsigned \cup SignedTypes

BITS(t) == IF t \in {"u8", "i8"} THEN 8 ELSE 16

Signed(t) == t \in SignedTypes

Pow2(k) == 2 ^ k

Panic == 0 - 1

MAX(t) == Pow2(BITS(t)) - 1

ToInt(t, x) == IF Signed(t) /\ x >= Pow2(BITS(t) - 1) THEN x - Pow2(BITS(t)) ELSE x

\* `x as d` for x of type s: truncation, or extension by the signedness of s
cast(s, d, x) == IF x = Panic THEN Panic ELSE ToInt(s, x) % Pow2(BITS(d))

\* `value as $t` for a bool
cast_bool(b) == IF b THEN 1 ELSE 0

\* a - b on usize
usub(a, b) == IF a = Panic \/ b = Panic \/ a < b THEN Panic ELSE a - b

\* x << k on type t
shl(t, x, k) ==
    IF x = Panic \/ k < 0 \/ k >= BITS(t) THEN Panic
    ELSE (x % Pow2(BITS(t) - k)) * Pow2(k)

\* x >> k on type t: arithmetic for a signed t, logical for an unsigned t
shr(t, x, k) ==
    IF x = Panic \/ k < 0 \/ k >= BITS(t) THEN Panic
    ELSE IF Signed(t) /\ x >= Pow2(BITS(t) - 1)
         THEN (x \div Pow2(k)) + (Pow2(BITS(t)) - Pow2(BITS(t) - k))
         ELSE x \div Pow2(k)

wrapping_sub(t, a, b) ==
    IF a = Panic \/ b = Panic THEN Panic ELSE (a - b + Pow2(BITS(t))) % Pow2(BITS(t))

not(t, x) == IF x = Panic THEN Panic ELSE MAX(t) - x

RECURSIVE BitAnd(_, _)
BitAnd(a, b) ==
    IF a = 0 \/ b = 0 THEN 0
    ELSE (a % 2) * (b % 2) + 2 * BitAnd(a \div 2, b \div 2)

RECURSIVE BitOr(_, _)
BitOr(a, b) ==
    IF a = 0 THEN b
    ELSE IF b = 0 THEN a
    ELSE (IF a % 2 = 1 \/ b % 2 = 1 THEN 1 ELSE 0) + 2 * BitOr(a \div 2, b \div 2)

and(a, b) == IF a = Panic \/ b = Panic THEN Panic ELSE BitAnd(a, b)

or(a, b) == IF a = Panic \/ b = Panic THEN Panic ELSE BitOr(a, b)

----------------------------------------------------------------------------
(* impl_bits_for_int_type!($storage = S, $value = R)                       *)

\* bits with the field masked out instead of shifted up and back down
bits_zero_extended(S, self, START, END, R) ==
    LET read_bits == usub(END, START)
    IN  IF read_bits = Panic \/ read_bits > BITS(R) THEN Panic
        ELSE cast(S, R, shr(S, self, START)) % Pow2(read_bits)

\* bits without the shift up and back down: the bits above the field stay
bits_unmasked(S, self, START, END, R) ==
    IF usub(BITS(R), usub(END, START)) = Panic THEN Panic
    ELSE cast(S, R, shr(S, self, START))

bits(S, self, START, END, R) ==
    LET VALUE_BITS == BITS(R)
        read_bits == usub(END, START)
        k == usub(VALUE_BITS, read_bits)
    IN  shr(R, shl(R, cast(S, R, shr(S, self, START)), k), k)

\* with_bits without `& mask` on the shifted value
with_bits_unmasked_value(S, self, START, END, R, value) ==
    LET written_bits == usub(END, START)
        mask == shl(S, wrapping_sub(S, shl(S, shl(S, 1, usub(written_bits, 1)), 1), 1), START)
    IN  or(and(self, not(S, mask)), shl(S, cast(R, S, value), START))

\* with_bits without `<< START` on the value
with_bits_unshifted_value(S, self, START, END, R, value) ==
    LET written_bits == usub(END, START)
        mask == shl(S, wrapping_sub(S, shl(S, shl(S, 1, usub(written_bits, 1)), 1), 1), START)
    IN  or(and(self, not(S, mask)), and(cast(R, S, value), mask))

\* with_bits without `self & !mask`
with_bits_uncleared(S, self, START, END, R, value) ==
    LET written_bits == usub(END, START)
        mask == shl(S, wrapping_sub(S, shl(S, shl(S, 1, usub(written_bits, 1)), 1), 1), START)
    IN  or(self, and(shl(S, cast(R, S, value), START), mask))

\* with_bits with the mask built as (1 << written_bits) - 1, the shift amount
\* taken modulo the width as an unchecked build does
with_bits_wrapping_shift(S, self, START, END, R, value) ==
    LET written_bits == usub(END, START)
        mask == shl(S, wrapping_sub(S, shl(S, 1, written_bits % BITS(S)), 1), START)
    IN  or(and(self, not(S, mask)), and(shl(S, cast(R, S, value), START), mask))

\* with_bits with the mask built as (1 << written_bits) - 1, checked
with_bits_full_shift(S, self, START, END, R, value) ==
    LET written_bits == usub(END, START)
        mask == shl(S, wrapping_sub(S, shl(S, 1, written_bits), 1), START)
    IN  or(and(self, not(S, mask)), and(shl(S, cast(R, S, value), START), mask))

with_bits(S, self, START, END, R, value) ==
    LET written_bits == usub(END, START)
        mask == shl(S, wrapping_sub(S, shl(S, shl(S, 1, usub(written_bits, 1)), 1), 1), START)
    IN  or(and(self, not(S, mask)), and(shl(S, cast(R, S, value), START), mask))

\* set_bits that computes the new word and does not store it
set_bits_unassigned(S, self, START, END, R, value) ==
    IF with_bits(S, self, START, END, R, value) = Panic THEN Panic ELSE self

set_bits(S, self, START, END, R, value) == with_bits(S, self, START, END, R, value)

(* impl_bit_for_int_type!($t = S)                                          *)

bit_and(S, self, BIT) == and(self, shl(S, 1, BIT))

\* bit with `!=` binding tighter than `&`: self & (1 << BIT != 0)
bit_lsb(S, self, BIT) == and(self, 1) # 0

bit(S, self, BIT) == bit_and(S, self, BIT) # 0

\* with_bit without `self & !(1 << BIT)`
with_bit_uncleared(S, self, BIT, value) == or(self, shl(S, cast_bool(value), BIT))

with_bit(S, self, BIT, value) ==
    or(and(self, not(S, shl(S, 1, BIT))), shl(S, cast_bool(value), BIT))

set_bit(S, self, BIT, value) == with_bit(S, self, BIT, value)

----------------------------------------------------------------------------
(* Calls of the primitives on one storage word                             *)

SampleWords(t) ==
    IF BITS(t) = 8 THEN {0, 1, 60, 90, 127, 128, 165, 255}
    ELSE {0, 1, 4080, 23100, 32767, 32768, 42435, 65535}

SampleValues(t) ==
    IF BITS(t) = 8 THEN {0, 1, 5, 15, 127, 128, 170, 255}
    ELSE {0, 5, 255, 256, 32767, 32768, 42435, 65535}

Ranges(t) == {r \in (0 .. BITS(t) - 1) \X (1 .. BITS(t)) : r[1] < r[2]}

NoCall == [op |-> "none", START |-> 0, END |-> 0, R |-> "none", value |-> 0, self |-> 0]

Unit == [panic |-> FALSE, val |-> 0]

Returned(x) == [panic |-> x = Panic, val |-> x]

Init ==
    /\ T \in IntTypes
    /\ word \in SampleWords(T)
    /\ call = NoCall
    /\ ret = Unit
    /\ last = << >>
    /\ n = 0

Bits ==
    /\ call.op = "none"
    /\ \E r \in Ranges(T), R \in IntTypes :
          /\ call' = [op |-> "bits", START |-> r[1], END |-> r[2], R |-> R,
                      value |-> 0, self |-> word]
          /\ ret' = Returned(bits(T, word, r[1], r[2], R))
    /\ UNCHANGED <<T, word, last, n>>

WithBits ==
    /\ call.op = "none"
    /\ \E r \in Ranges(T), R \in IntTypes :
          \E v \in SampleValues(R) :
             /\ call' = [op |-> "with_bits", START |-> r[1], END |-> r[2], R |-> R,
                         value |-> v, self |-> word]
             /\ ret' = Returned(with_bits(T, word, r[1], r[2], R, v))
    /\ UNCHANGED <<T, word, last, n>>

SetBits ==
    /\ call.op = "none"
    /\ \E r \in Ranges(T), R \in IntTypes :
          \E v \in SampleValues(R) :
             LET w == set_bits(T, word, r[1], r[2], R, v) IN
             /\ call' = [op |-> "set_bits", START |-> r[1], END |-> r[2], R |-> R,
                         value |-> v, self |-> word]
             /\ word' = IF w = Panic THEN word ELSE w
             /\ ret' = [panic |-> w = Panic, val |-> 0]
    /\ UNCHANGED <<T, last, n>>

Bit ==
    /\ call.op = "none"
    /\ \E p \in 0 .. BITS(T) - 1 :
          /\ call' = [op |-> "bit", START |-> p, END |-> p + 1, R |-> "bool",
                      value |-> 0, self |-> word]
          /\ ret' = [panic |-> bit_and(T, word, p) = Panic, val |-> bit(T, word, p)]
    /\ UNCHANGED <<T, word, last, n>>

WithBit ==
    /\ call.op = "none"
    /\ \E p \in 0 .. BITS(T) - 1, b \in BOOLEAN :
          /\ call' = [op |-> "with_bit", START |-> p, END |-> p + 1, R |-> "bool",
                      value |-> cast_bool(b), self |-> word]
          /\ ret' = Returned(with_bit(T, word, p, b))
    /\ UNCHANGED <<T, word, last, n>>

SetBit ==
    /\ call.op = "none"
    /\ \E p \in 0 .. BITS(T) - 1, b \in BOOLEAN :
          LET w == set_bit(T, word, p, b) IN
          /\ call' = [op |-> "set_bit", START |-> p, END |-> p + 1, R |-> "bool",
                      value |-> cast_bool(b), self |-> word]
          /\ word' = IF w = Panic THEN word ELSE w
          /\ ret' = [panic |-> w = Panic, val |-> 0]
    /\ UNCHANGED <<T, last, n>>

Next == Bits \/ WithBits \/ SetBits \/ Bit \/ WithBit \/ SetBit

Spec == Init /\ [][Next]_vars

----------------------------------------------------------------------------
(* Properties of the primitives                                            *)

BitAt(x, p) == (x \div Pow2(p)) % 2

Field(x, s, e) == (x \div Pow2(s)) % Pow2(e - s)

Width == call.END - call.START

IsWrite == call.op \in {"with_bits", "set_bits"}

\* the word a write produced: returned by with_bits, left in place by set_bits
Result == IF call.op \in {"set_bits", "set_bit"} THEN word ELSE ret.val

\* the low k bits x of a value, sign-extended to a signed R, zero-extended otherwise
Extend(R, k, x) ==
    IF Signed(R) /\ x >= Pow2(k - 1) THEN x + (Pow2(BITS(R)) - Pow2(k)) ELSE x

\* C1: with_bits and set_bits leave every bit outside [START, END) as it was
C1_NonInterference ==
    IsWrite =>
        /\ ~ret.panic
        /\ \A p \in 0 .. BITS(T) - 1 :
              (p < call.START \/ p >= call.END) => BitAt(Result, p) = BitAt(call.self, p)

C1_Witness ==
    /\ call.op = "set_bits" /\ call.R = "u8" /\ call.value = 255
    /\ call.START = 2 /\ call.END = 5 /\ call.self = 165 /\ word = 189

\* C2: reading a range back after writing v to it gives the low END-START bits
\* of v, sign-extended for a signed raw type and zero-extended for an unsigned
\* one, whatever the word held before
C2_RoundTrip ==
    (IsWrite /\ Width <= BITS(call.R)) =>
        bits(T, Result, call.START, call.END, call.R)
            = Extend(call.R, Width, call.value % Pow2(Width))

C2_Witness ==
    /\ call.op = "with_bits" /\ call.R = "i8" /\ call.value = 170 /\ T = "u16"
    /\ call.START = 5 /\ call.END = 9 /\ call.self = 42435
    /\ ToInt("i8", bits(T, ret.val, 5, 9, "i8")) = 0 - 6

\* C3: bits sign-extends into a signed raw type (negative exactly when the top
\* bit of the field is set, within [-2^(k-1), 2^(k-1)-1]) and gives
\* (word >> START) mod 2^k for an unsigned raw type
C3_SignExtension ==
    (call.op = "bits" /\ Width <= BITS(call.R)) =>
        LET f == Field(call.self, call.START, call.END)
            v == ToInt(call.R, ret.val)
        IN  /\ ~ret.panic
            /\ Signed(call.R) =>
                  /\ (v < 0) <=> (BitAt(call.self, call.END - 1) = 1)
                  /\ v >= 0 - Pow2(Width - 1)
                  /\ v <= Pow2(Width - 1) - 1
                  /\ (Width = 4 /\ f = 8) => v = 0 - 8
                  /\ (Width = 4 /\ f = 7) => v = 7
            /\ ~Signed(call.R) => ret.val = f

C3_Witness ==
    /\ call.op = "bits" /\ call.R = "i16" /\ T = "u8" /\ call.self = 128
    /\ call.START = 4 /\ call.END = 8 /\ ToInt("i16", ret.val) = 0 - 8

\* C4: a write of a value wider than the field does not abort; the field holds
\* the low END-START bits of the value, the rest of the word is unchanged, and
\* an unsigned read gives those low bits back (0xFF in 4 bits reads 0x0F)
C4_TruncatingWrite ==
    IsWrite =>
        /\ ~ret.panic
        /\ Field(Result, call.START, call.END) = ToInt(call.R, call.value) % Pow2(Width)
        /\ Result - Field(Result, call.START, call.END) * Pow2(call.START)
              = call.self - Field(call.self, call.START, call.END) * Pow2(call.START)
        /\ (~Signed(call.R) /\ Width <= BITS(call.R)) =>
              bits(T, Result, call.START, call.END, call.R) = call.value % Pow2(Width)

C4_Witness ==
    /\ call.op = "with_bits" /\ call.R = "u8" /\ call.value = 255 /\ Width = 4
    /\ call.START = 3 /\ call.self = 23100 /\ ~ret.panic
    /\ bits(T, ret.val, call.START, call.END, "u8") = 15
    /\ call.value >= Pow2(Width)

\* C5: over the whole word, bits returns the word and with_bits returns the value
C5_WidthBoundary ==
    (call.START = 0 /\ call.END = BITS(T) /\ call.R = T) =>
        /\ ~ret.panic
        /\ call.op = "bits" => ret.val = call.self
        /\ IsWrite => Result = call.value

C5_Witness ==
    /\ call.op = "with_bits" /\ T = "u16" /\ call.R = "u16"
    /\ call.START = 0 /\ call.END = 16
    /\ call.self = 4080 /\ call.value = 42435 /\ ret.val = 42435

\* C6: bit::<p> is true exactly when bits::<p, p+1> is 1 (unsigned raw type) or
\* -1 (signed raw type), and false exactly when it is 0
C6_SingleBitAgreement ==
    call.op = "bit" =>
        \A R \in IntTypes :
            LET b == bits(T, call.self, call.START, call.START + 1, R)
            IN  /\ ret.val = TRUE => ToInt(R, b) = (IF Signed(R) THEN 0 - 1 ELSE 1)
                /\ ret.val = FALSE => b = 0

C6_Witness ==
    /\ call.op = "bit" /\ T = "i16" /\ call.START = 15 /\ call.self = 42435
    /\ ret.val = TRUE /\ ToInt("i8", bits(T, call.self, 15, 16, "i8")) = 0 - 1

\* C10: with a valid range no shift is by the operand's width or more and no
\* subtraction overflows: no call aborts on arithmetic
C10_NoArithmeticAbort ==
    (call.op # "none" /\ (call.op = "bits" => Width <= BITS(call.R))) => ~ret.panic

C10_Witness ==
    /\ call.op = "with_bits" /\ T = "i16" /\ call.START = 0 /\ call.END = 16
    /\ call.R = "i16" /\ call.value = 32768 /\ ~ret.panic /\ ret.val = 32768

----------------------------------------------------------------------------
(* example::BitRanges(pub u16): writes to its fields                       *)

MaxWrites == 4

BitRanges ==
    [ whole_bitfield              |-> [START |-> 0,  END |-> 16, R |-> "u16"],
      inclusive_range             |-> [START |-> 0,  END |-> 4,  R |-> "u8"],
      exclusive_range             |-> [START |-> 4,  END |-> 7,  R |-> "u8"],
      start_and_length            |-> [START |-> 7,  END |-> 12, R |-> "u8"],
      single_bit_inclusive_range  |-> [START |-> 12, END |-> 13, R |-> "u8"],
      single_bit_exclusive_range  |-> [START |-> 13, END |-> 14, R |-> "u8"],
      single_bit_start_and_length |-> [START |-> 14, END |-> 15, R |-> "u8"],
      flag                        |-> [START |-> 15, END |-> 16, R |-> "bool"] ]

RangeFields == (DOMAIN BitRanges) \ {"whole_bitfield", "flag"}

DisjointFields == RangeFields \cup {"flag"}

RangesWords == SampleWords("u16")

FieldValues == SampleValues("u8")

\* what each field holds in word w
Stored(w) == [f \in DisjointFields |-> Field(w, BitRanges[f].START, BitRanges[f].END)]

InitRanges ==
    /\ T = "u16"
    /\ word \in RangesWords
    /\ call = NoCall
    /\ ret = Unit
    /\ last = Stored(word)
    /\ n = 0

\* set_<field>(v) of a u8 field: set_bits::<START, END>(v)
SetRangeField ==
    /\ n < MaxWrites
    /\ \E f \in RangeFields, v \in FieldValues :
          LET d == BitRanges[f] IN
          /\ word' = set_bits(T, word, d.START, d.END, d.R, v)
          /\ last' = [last EXCEPT ![f] = v % Pow2(d.END - d.START)]
    /\ n' = n + 1
    /\ UNCHANGED <<T, call, ret>>

\* set_flag(b): set_bit::<15>(b)
SetFlag ==
    /\ n < MaxWrites
    /\ \E b \in BOOLEAN :
          /\ word' = set_bit(T, word, BitRanges.flag.START, b)
          /\ last' = [last EXCEPT !["flag"] = cast_bool(b)]
    /\ n' = n + 1
    /\ UNCHANGED <<T, call, ret>>

\* set_whole_bitfield(v): every field now holds what v gives it
SetWholeBitfield ==
    /\ n < MaxWrites
    /\ \E v \in RangesWords :
          LET d == BitRanges.whole_bitfield IN
          /\ word' = set_bits(T, word, d.START, d.END, d.R, v)
          /\ last' = Stored(v)
    /\ n' = n + 1
    /\ UNCHANGED <<T, call, ret>>

NextRanges == SetRangeField \/ SetFlag \/ SetWholeBitfield

SpecRanges == InitRanges /\ [][NextRanges]_vars

RECURSIVE Packed(_, _)
Packed(l, fs) ==
    IF fs = {} THEN 0
    ELSE LET f == CHOOSE x \in fs : TRUE
         IN  l[f] * Pow2(BitRanges[f].START) + Packed(l, fs \ {f})

\* C9: after any sequence of writes every field of BitRanges reads back the low
\* bits of the value last written to it (its initial bits if never written), and
\* the word is those values packed, whatever the order of the writes
C9_FieldIsolation ==
    /\ \A f \in RangeFields :
          bits(T, word, BitRanges[f].START, BitRanges[f].END, BitRanges[f].R) = last[f]
    /\ cast_bool(bit(T, word, BitRanges.flag.START)) = last["flag"]
    /\ word = Packed(last, DisjointFields)

C9_Witness ==
    /\ n = 3
    /\ last["inclusive_range"] = 15 /\ last["exclusive_range"] = 5
    /\ last["start_and_length"] = 10 /\ last["flag"] = 0
    /\ last["single_bit_inclusive_range"] = 1 /\ last["single_bit_start_and_length"] = 1
    /\ word = 21855

----------------------------------------------------------------------------
(* example::FieldTypeConversions(pub u16): checked and unwrapping accessors *)

MaxCalls == 3

FieldTypeConversions ==
    [ try_read_as_non_zero_u8    |-> [START |-> 0, END |-> 4, R |-> "u8"],
      try_write_as_u16           |-> [START |-> 4, END |-> 8, R |-> "u8"],
      unwrap_read_as_non_zero_u8 |-> [START |-> 0, END |-> 4, R |-> "u8"] ]

ConvWords == {0, 23100, 42435, 65535}

Ok(v) == [ok |-> TRUE, val |-> v]

Err == [ok |-> FALSE, val |-> 0]

\* <NonZeroU8 as TryFrom<u8>>::try_from
NonZeroU8_try_from(raw) == IF raw = 0 THEN Err ELSE Ok(raw)

\* <U16 as TryInto<u8>>::try_into
U16_try_into_u8(v) == IF v > MAX("u8") THEN Err ELSE Ok(v)

\* reader of a try_get field: extract, then the checked conversion
try_get(S, self, d) == NonZeroU8_try_from(bits(S, self, d.START, d.END, d.R))

\* reader of an unwrap_get field: the checked conversion, unwrapped
unwrap_get(S, self, d) ==
    LET r == try_get(S, self, d) IN [panic |-> ~r.ok, ok |-> r.ok, val |-> r.val]

\* writer of a try_set field: the checked conversion, then the write if it succeeded
try_set(S, self, d, v) ==
    LET c == U16_try_into_u8(v)
    IN  IF c.ok THEN [ok |-> TRUE, word |-> set_bits(S, self, d.START, d.END, d.R, c.val)]
        ELSE [ok |-> FALSE, word |-> self]

Called(op, d, v) ==
    [op |-> op, START |-> d.START, END |-> d.END, R |-> d.R, value |-> v, self |-> word]

InitConv ==
    /\ T = "u16"
    /\ word \in ConvWords
    /\ call = NoCall
    /\ ret = [panic |-> FALSE, ok |-> TRUE, val |-> 0]
    /\ last = << >>
    /\ n = 0

\* an abort ends the program
Running == n < MaxCalls /\ ~ret.panic

SetTryReadAsNonZeroU8 ==
    /\ Running
    /\ \E v \in SampleValues("u8") :
          LET d == FieldTypeConversions.try_read_as_non_zero_u8 IN
          /\ call' = Called("set_try_read_as_non_zero_u8", d, v)
          /\ word' = set_bits(T, word, d.START, d.END, d.R, v)
          /\ ret' = [panic |-> FALSE, ok |-> TRUE, val |-> 0]
    /\ n' = n + 1
    /\ UNCHANGED <<T, last>>

TryReadAsNonZeroU8 ==
    /\ Running
    /\ LET d == FieldTypeConversions.try_read_as_non_zero_u8
           r == try_get(T, word, d)
       IN  /\ call' = Called("try_read_as_non_zero_u8", d, 0)
           /\ ret' = [panic |-> FALSE, ok |-> r.ok, val |-> r.val]
    /\ n' = n + 1
    /\ UNCHANGED <<T, word, last>>

UnwrapReadAsNonZeroU8 ==
    /\ Running
    /\ LET d == FieldTypeConversions.unwrap_read_as_non_zero_u8
       IN  /\ call' = Called("unwrap_read_as_non_zero_u8", d, 0)
           /\ ret' = unwrap_get(T, word, d)
    /\ n' = n + 1
    /\ UNCHANGED <<T, word, last>>

TrySetTryWriteAsU16 ==
    /\ Running
    /\ \E v \in SampleValues("u16") :
          LET d == FieldTypeConversions.try_write_as_u16
              r == try_set(T, word, d, v)
          IN  /\ call' = Called("try_set_try_write_as_u16", d, v)
              /\ word' = r.word
              /\ ret' = [panic |-> FALSE, ok |-> r.ok, val |-> 0]
    /\ n' = n + 1
    /\ UNCHANGED <<T, last>>

NextConv ==
    SetTryReadAsNonZeroU8 \/ TryReadAsNonZeroU8 \/ UnwrapReadAsNonZeroU8 \/ TrySetTryWriteAsU16

SpecConv == InitConv /\ [][NextConv]_vars

\* C7: a checked write whose conversion fails returns the failure and leaves the
\* word as it was; one that succeeds leaves with_bits of the converted value
C7_CheckedWrite ==
    call.op = "try_set_try_write_as_u16" =>
        /\ ~ret.panic
        /\ call.value > MAX("u8") => (~ret.ok /\ word = call.self)
        /\ call.value <= MAX("u8") =>
              /\ ret.ok
              /\ word = with_bits(T, call.self, call.START, call.END, call.R, call.value)
              /\ Field(word, call.START, call.END) = call.value % Pow2(Width)

C7_Witness ==
    /\ call.op = "try_set_try_write_as_u16" /\ call.value = 256 /\ ~ret.ok
    /\ call.self = 42435 - 3 /\ word = call.self /\ n = 2

\* C8: after raw 0 is written to the field the checked reader fails without
\* aborting, after raw 5 it succeeds with 5; the unwrapping reader aborts exactly
\* when the checked reader fails and otherwise returns the same value
C8_GetTiers ==
    LET d == FieldTypeConversions.try_read_as_non_zero_u8
        u == FieldTypeConversions.unwrap_read_as_non_zero_u8
        r == try_get(T, word, d)
        a == unwrap_get(T, word, u)
    IN  call.op # "none" =>
            /\ call.op = "set_try_read_as_non_zero_u8" =>
                  /\ call.value = 0 => ~r.ok
                  /\ call.value = 5 => r = Ok(5)
                  /\ r.ok <=> call.value % Pow2(Width) # 0
                  /\ r.ok => r.val = call.value % Pow2(Width)
            /\ a.panic <=> ~r.ok
            /\ r.ok => a.val = r.val
            /\ call.op = "try_read_as_non_zero_u8" =>
                  (~ret.panic /\ ret.ok = r.ok /\ ret.val = r.val)
            /\ call.op = "unwrap_read_as_non_zero_u8" =>
                  (ret.panic <=> Field(call.self, call.START, call.END) = 0)

C8_Witness ==
    /\ call.op = "unwrap_read_as_non_zero_u8" /\ ret.panic
    /\ Field(word, 0, 4) = 0 /\ Field(word, 4, 8) = 15 /\ n = 3
    /\ ~try_get(T, word, FieldTypeConversions.try_read_as_non_zero_u8).ok

====
